---- MODULE Spec2Model ----
(***************************************************************************)
(* Model of project_static_analysis.py: the main pipeline (file list,      *)
(* resource inventory, concurrent usage check, cleanup) as a state machine. *)
(* Strings are sequences of one-character strings so that substring tests  *)
(* and the fragment regex are computed, not assumed.                       *)
(***************************************************************************)
EXTENDS Integers, Sequences, FiniteSets, TLC

VARIABLES
    pc,                   \* position of the main thread in __main__
    apply_filtered_files, \* -t flag
    analyze_resources,    \* -r flag
    snap,                 \* state of the three cached json files on disk
    filtered_files,       \* the file list: sequence of source file paths
    corpus,               \* what reading each listed file gives the tasks
    resources,            \* the inventory: set of [cat, name, path] entries
    fs,                   \* files that exist on disk
    task,                 \* entry -> "pending" | "used" | "unused" | "raised"
    collected,            \* futures whose result() the main thread has taken
    used_resources,       \* names appended to used_resources
    count_unuse,          \* count_unuse[0]
    unused_resources,     \* the list fetch_unused_resources returns / loads
    persisted,            \* unused_assets.json written by this run
    unused_dict,          \* name -> path built by clear_unused_resources
    todo,                 \* keys of unused_dict not yet iterated
    total_size_bytes,     \* total_size_bytes of clear_unused_resources
    err,                  \* what ended the run abnormally
    keys_read,            \* number of getch() calls made so far
    additional_resource_folders, \* -arp: the folder names, << >> when omitted
    build                 \* apply_resources seen step by step (see SpecBuild)

vars == << pc, apply_filtered_files, analyze_resources, snap, filtered_files,
           corpus,
           resources, fs, task, collected, used_resources, count_unuse,
           unused_resources, persisted, unused_dict, todo, total_size_bytes,
           err, keys_read, additional_resource_folders, build >>

----------------------------------------------------------------------------
(* Bounds of the model *)

MaxFiles == 2
MaxEntries == 2

----------------------------------------------------------------------------
(* Strings *)

Digits == {"0", "1", "2", "3", "4", "5", "6", "7", "8", "9"}

\* Python's `s in t` for strings
IsSubstring(s, t) ==
    \E i \in 0..(Len(t) - Len(s)) : SubSeq(t, i + 1, i + Len(s)) = s

\* re.search(r'\d', input_string) is not None
contains_digit(input_string) ==
    \E i \in 1..Len(input_string) : input_string[i] \in Digits

\* findall of a negated character class followed by +: the maximal runs of
\* characters outside seps, left to right
RECURSIVE SplitAcc(_, _, _, _)
SplitAcc(s, seps, cur, out) ==
    IF s = << >>
    THEN IF cur = << >> THEN out ELSE Append(out, cur)
    ELSE IF Head(s) \in seps
         THEN SplitAcc(Tail(s), seps, << >>,
                       IF cur = << >> THEN out ELSE Append(out, cur))
         ELSE SplitAcc(Tail(s), seps, Append(cur, Head(s)), out)

\* The class [^_?-?\d]: '_', the range '?'..'?' and the digits are excluded;
\* '-' is only the range operator of ?-? and so is NOT excluded.
RegexExcluded == {"_", "?"} \cup Digits

\* re.compile(r'([^_?-?\d]+)').findall(resource)
splited_string_arr(resource) == SplitAcc(resource, RegexExcluded, << >>, << >>)

is_content_matching_resource(resource, file_content) ==
    LET arr == splited_string_arr(resource) IN
    IF arr # << >>
    THEN \A k \in 1..Len(arr) : IsSubstring(arr[k], file_content)
    ELSE IsSubstring(resource, file_content)

----------------------------------------------------------------------------
(* The inputs the run can meet: resource names, corpus files, paths *)

Names == { <<"a">>, <<"a", "_", "1">>, <<"a", "-", "1">>, <<"1">> }

Contents == { << >>, <<"a">>, <<"1">> }

\* A corpus file: readable with some text, or one whose open()/read() raises
Files == { [readable |-> TRUE, content |-> c] : c \in Contents }
         \cup { [readable |-> FALSE, content |-> << >>] }

\* A file list of n paths, and the contents that can stand behind it
FileLists == { [i \in 1..n |-> i] : n \in 0..MaxFiles }
CorporaOf(paths) == [DOMAIN paths -> Files]

Formats == {"png", "json"}

\* A file path: directory <base>.imageset when bundle, a plain folder
\* otherwise; leaf is the file's extension (or the @2x variant of a bundle)
BundlePath(n, leaf) == [base |-> n, leaf |-> leaf, bundle |-> TRUE]
PlainPath(n, leaf) == [base |-> n, leaf |-> leaf, bundle |-> FALSE]

\* os.path.dirname(file_path).endswith('.imageset')
ParentIsImageset(file_path) == file_path.bundle

SameDir(p, q) == p.base = q.base /\ p.bundle = q.bundle

EntryUniverse ==
    { [cat |-> "imagesets", name |-> n, path |-> BundlePath(n, "png")] : n \in Names }
    \cup { [cat |-> "png", name |-> n, path |-> PlainPath(n, "png")] : n \in Names }
    \cup { [cat |-> "json", name |-> n, path |-> PlainPath(n, "json")] : n \in Names }
    \cup { [cat |-> "json", name |-> n, path |-> BundlePath(n, "json")] : n \in Names }

\* What apply_resources can build: one path per (category, name); a file
\* inside a bundle directory implies the bundle is in imagesets
IsInventory(E) ==
    /\ \A e1, e2 \in E : (e1.cat = e2.cat /\ e1.name = e2.name) => e1 = e2
    /\ \A e \in E : e.path.bundle =>
          \E i \in E : i.cat = "imagesets" /\ i.name = e.path.base

RECURSIVE SetsUpTo(_, _)
SetsUpTo(S, k) ==
    IF k = 0 THEN { {} }
    ELSE LET prev == SetsUpTo(S, k - 1) IN
         prev \cup { T \cup {x} : T \in prev, x \in S }

Inventories == { E \in SetsUpTo(EntryUniverse, MaxEntries) : IsInventory(E) }

\* resources["imagesets"].keys() / resources["others"][format].keys()
imageset_keys(res) == { e.name : e \in { x \in res : x.cat = "imagesets" } }
others_keys(res, format) == { e.name : e \in { x \in res : x.cat = format } }
PathIn(res, cat, name) ==
    (CHOOSE e \in res : e.cat = cat /\ e.name = name).path

\* The files on disk when the inventory was built: every inventoried path,
\* and the @2x variant beside each bundle's image
FilesOnDisk(res) ==
    { e.path : e \in res }
    \cup { BundlePath(e.name, "png@2x") : e \in { x \in res : x.cat = "imagesets" } }

\* os.path.getsize
getsize(file_path) ==
    IF file_path.leaf = "json" THEN 1
    ELSE IF file_path.leaf = "png" THEN 2 ELSE 3

\* What is left on disk once file_path has been deleted the way
\* delete_imageset_or_file deletes
Removed(disk, file_path) ==
    IF ParentIsImageset(file_path)
    THEN { q \in disk : ~SameDir(q, file_path) }
    ELSE disk \ {file_path}

\* The disk a cache-reusing run can meet: as inventoried, or with one of the
\* inventoried resources already deleted since
DisksFor(res) ==
    { FilesOnDisk(res) } \cup { Removed(FilesOnDisk(res), e.path) : e \in res }

----------------------------------------------------------------------------
(* check_resource_usage *)

\* lines 293-298: the two tests on one file's content
FileMatches(resource, content) ==
    \/ IsSubstring(resource, content)
    \/ contains_digit(resource) /\ is_content_matching_resource(resource, content)

\* lines 283-306: the loop over all_files, from file i on
RECURSIVE ScanFrom(_, _, _)
ScanFrom(resource, all_files, i) ==
    IF i > Len(all_files) THEN "unused"
    ELSE IF ~all_files[i].readable THEN "raised"
    ELSE IF all_files[i].content # << >> /\ FileMatches(resource, all_files[i].content)
         THEN "used"
         ELSE ScanFrom(resource, all_files, i + 1)

check_resource_usage(resource, all_files) == ScanFrom(resource, all_files, 1)

----------------------------------------------------------------------------
(* __main__ *)

\* The -arp option: omitted (argparse leaves None, which `not folders` does
\* not tell from an empty list) or naming one folder
ResourceFolderArgs == { << >>, <<"Res">> }

\* build while apply_resources is not looked into step by step
NoBuild ==
    [stage |-> "idle", input_path |-> << >>, exclude_resource_folders |-> << >>,
     tree |-> {}, imageset_files |-> {}, additional_resource_files |-> {},
     imagesets |-> {}, others |-> {}]

SnapFiles == {"filtered_files.json", "filtered_resources.json", "unused_assets.json"}
SnapStates == {"ok", "missing", "malformed"}

\* A malformed file taken for data: only a missing file raises
LoadRaises_MissingOnly(state) == state = "missing"

\* open() raises FileNotFoundError on a missing file, json.load raises
\* JSONDecodeError on a malformed one
LoadRaises(state) == state # "ok"

Init ==
    /\ pc = "start"
    /\ apply_filtered_files \in BOOLEAN
    /\ analyze_resources \in BOOLEAN
    /\ snap \in [SnapFiles -> SnapStates]
    /\ (~apply_filtered_files => snap = [f \in SnapFiles |-> "missing"])
    /\ filtered_files = << >>
    /\ corpus = << >>
    /\ resources = {}
    /\ fs = {}
    /\ task = << >>
    /\ collected = {}
    /\ used_resources = {}
    /\ count_unuse = 0
    /\ unused_resources = {}
    /\ persisted = FALSE
    /\ unused_dict = << >>
    /\ todo = {}
    /\ total_size_bytes = 0
    /\ err = "none"
    /\ keys_read = 0
    /\ additional_resource_folders \in ResourceFolderArgs
    /\ build = NoBuild

FetchVars == << task, collected, used_resources, count_unuse >>
ClearVars == << unused_dict, todo, total_size_bytes >>
ArgVars == << apply_filtered_files, analyze_resources, keys_read,
             additional_resource_folders, build >>
FlagVars == << ArgVars, corpus >>

\* lines 537-538: the cached file list is loaded
LoadFilteredFiles ==
    /\ pc = "start" /\ apply_filtered_files
    /\ IF LoadRaises(snap["filtered_files.json"])
       THEN /\ pc' = "error" /\ err' = "load"
            /\ UNCHANGED filtered_files
       ELSE /\ pc' = "files" /\ UNCHANGED err
            /\ filtered_files' \in FileLists
    /\ UNCHANGED << FlagVars, snap, resources, fs, FetchVars, unused_resources,
                    persisted, ClearVars >>

\* lines 540-541: fetch_filtered_files and apply_dev_files, which saves
\* filtered_files.json
FetchFilteredFiles ==
    /\ pc = "start" /\ ~apply_filtered_files
    /\ filtered_files' \in FileLists
    /\ snap' = [snap EXCEPT !["filtered_files.json"] = "ok"]
    /\ pc' = "files"
    /\ UNCHANGED << FlagVars, resources, fs, FetchVars, unused_resources,
                    persisted, ClearVars, err >>

\* line 543: without -r the run ends here
SkipResources ==
    /\ pc = "files" /\ ~analyze_resources
    /\ pc' = "done"
    /\ UNCHANGED << FlagVars, snap, filtered_files, resources, fs, FetchVars,
                    unused_resources, persisted, ClearVars, err >>

\* lines 545-546: the cached inventory is loaded; the disk is whatever is
\* left of the files it names
LoadResources ==
    /\ pc = "files" /\ analyze_resources /\ apply_filtered_files
    /\ IF LoadRaises(snap["filtered_resources.json"])
       THEN /\ pc' = "error" /\ err' = "load"
            /\ UNCHANGED << resources, fs >>
       ELSE /\ pc' = "resources_loaded" /\ UNCHANGED err
            /\ \E inv \in Inventories :
                  /\ resources' = inv
                  /\ fs' \in DisksFor(inv)
    /\ UNCHANGED << FlagVars, snap, filtered_files, FetchVars, unused_resources,
                    persisted, ClearVars >>

\* lines 547-548: the cached unused list is loaded
LoadUnused ==
    /\ pc = "resources_loaded"
    /\ IF LoadRaises(snap["unused_assets.json"])
       THEN /\ pc' = "error" /\ err' = "load"
            /\ UNCHANGED unused_resources
       ELSE /\ pc' = "clear" /\ UNCHANGED err
            /\ unused_resources' \in
                  SUBSET (imageset_keys(resources)
                          \cup UNION { others_keys(resources, f) : f \in Formats })
    /\ UNCHANGED << FlagVars, snap, filtered_files, resources, fs, FetchVars,
                    persisted, ClearVars >>

\* lines 152-154: find_matching_folders returns None for `not folders`
FindsNone(folders) == folders = << >>

\* line 550: apply_resources builds the inventory from the disk and saves
\* filtered_resources.json. Without -arp, find_matching_folders returns None
\* (line 154) and the loop of line 220 over it raises TypeError, which
\* __main__ catches (line 557): nothing is built or saved.
ApplyResources ==
    /\ pc = "files" /\ analyze_resources /\ ~apply_filtered_files
    /\ IF FindsNone(additional_resource_folders)
       THEN /\ pc' = "error" /\ err' = "apply"
            /\ UNCHANGED << resources, fs, snap >>
       ELSE /\ \E inv \in Inventories :
                  /\ resources' = inv
                  /\ fs' = FilesOnDisk(inv)
            /\ snap' = [snap EXCEPT !["filtered_resources.json"] = "ok"]
            /\ pc' = "resources"
            /\ UNCHANGED err
    /\ UNCHANGED << FlagVars, filtered_files, FetchVars, unused_resources,
                    persisted, ClearVars >>

----------------------------------------------------------------------------
(* fetch_unused_resources *)

\* lines 310-314: every key of imagesets and of each others[format]
AllNames(res) ==
    imageset_keys(res) \cup UNION { others_keys(res, f) : f \in Formats }

\* The difference forgotten: every name is reported unused
UnusedOf_NoDifference(all, used) == all

\* line 331: set(all_resources).difference(set(used_resources))
UnusedOf(all, used) == all \ used

\* The list overwritten instead of appended to: only the last result stays
AppendUsed_Overwrite(used, verdict, name) ==
    IF verdict = "used" /\ name # << >> THEN {name} ELSE {}

\* lines 326-327: if r and r not in used_resources: used_resources.append(r)
\* (r is the resource name for a used resource, None otherwise; the list is
\* only ever read as a set)
AppendUsed(used, verdict, name) ==
    IF verdict = "used" /\ name # << >> THEN used \cup {name} ELSE used

\* The loop left after the first completed future
AllJoined_FirstOnly(t, done) == done # {} \/ DOMAIN t = {}

\* lines 323-330: as_completed has yielded every future
AllJoined(t, done) == done = DOMAIN t

\* lines 310-322: all_resources holds one element per key of each map (a
\* name in two maps is there twice), and one task is submitted per element.
\* The contents of the listed files are what the tasks will read.
FetchSubmit ==
    /\ pc = "resources"
    /\ task' = [e \in resources |-> "pending"]
    /\ collected' = {}
    /\ used_resources' = {}
    /\ count_unuse' = 0
    /\ corpus' \in CorporaOf(filtered_files)
    /\ pc' = "collect"
    /\ UNCHANGED << ArgVars, snap, filtered_files, resources, fs,
                    unused_resources, persisted, ClearVars, err >>

\* lines 264-306: a worker runs check_resource_usage for one element
RunTask(e) ==
    /\ pc \in {"collect", "unwind"}
    /\ e \in DOMAIN task /\ task[e] = "pending"
    /\ LET r == check_resource_usage(e.name, corpus) IN
          /\ task' = [task EXCEPT ![e] = r]
          /\ count_unuse' = IF r = "unused" THEN count_unuse + 1 ELSE count_unuse
    /\ UNCHANGED << pc, FlagVars, snap, filtered_files, resources, fs, collected,
                    used_resources, unused_resources, persisted, ClearVars, err >>

\* lines 323-328: the main thread takes the result of a completed future;
\* result() re-raises what the task raised
Collect(e) ==
    /\ pc = "collect"
    /\ e \in DOMAIN task /\ task[e] # "pending" /\ e \notin collected
    /\ IF task[e] = "raised"
       THEN /\ pc' = "unwind" /\ err' = "fetch"
            /\ UNCHANGED << collected, used_resources >>
       ELSE /\ collected' = collected \cup {e}
            /\ used_resources' = AppendUsed(used_resources, task[e], e.name)
            /\ UNCHANGED << pc, err >>
    /\ UNCHANGED << FlagVars, snap, filtered_files, resources, fs, task,
                    count_unuse, unused_resources, persisted, ClearVars >>

\* The user interrupts the run while the main thread waits in as_completed
Interrupt ==
    /\ pc = "collect"
    /\ pc' = "unwind" /\ err' = "interrupt"
    /\ UNCHANGED << FlagVars, snap, filtered_files, resources, fs, FetchVars,
                    unused_resources, persisted, ClearVars >>

\* line 320: leaving the with block on an exception, the executor's __exit__
\* waits for every submitted task; then the exception reaches __main__, whose
\* handlers (lines 553-558) catch Exception but not KeyboardInterrupt
Unwind ==
    /\ pc = "unwind"
    /\ \A e \in DOMAIN task : task[e] # "pending"
    /\ pc' = IF err = "interrupt" THEN "killed" ELSE "error"
    /\ UNCHANGED << FlagVars, snap, filtered_files, resources, fs, FetchVars,
                    unused_resources, persisted, ClearVars, err >>

\* lines 330-339: the difference is computed, saved and returned
FetchReturn ==
    /\ pc = "collect"
    /\ AllJoined(task, collected)
    /\ unused_resources' = UnusedOf(AllNames(resources), used_resources)
    /\ snap' = [snap EXCEPT !["unused_assets.json"] = "ok"]
    /\ persisted' = TRUE
    /\ pc' = "clear"
    /\ UNCHANGED << FlagVars, filtered_files, resources, fs, FetchVars,
                    ClearVars, err >>

----------------------------------------------------------------------------
(* clear_unused_resources *)

\* The order in which other_objs.values() yields the format maps
FormatOrders == { <<"png", "json">>, <<"json", "png">> }

\* lines 360-361: the imageset path, overwritten by the path of each format
\* map that holds the key, in order: the last one stays
DictValue(res, order, key) ==
    LET holding == { i \in 1..Len(order) : key \in others_keys(res, order[i]) } IN
    IF holding = {}
    THEN PathIn(res, "imagesets", key)
    ELSE PathIn(res, order[CHOOSE i \in holding : \A j \in holding : j <= i], key)

\* lines 358-362
ClearBegin ==
    /\ pc = "clear"
    /\ \E order \in FormatOrders :
          unused_dict' = [key \in unused_resources \cap AllNames(resources)
                             |-> DictValue(resources, order, key)]
    /\ todo' = unused_resources \cap AllNames(resources)
    /\ total_size_bytes' = 0
    /\ pc' = "clearing"
    /\ UNCHANGED << FlagVars, snap, filtered_files, resources, fs, FetchVars,
                    unused_resources, persisted, err >>

\* os.path.isdir(parent_dir) / os.path.exists(file_path) at deletion time
CanDelete(disk, file_path) ==
    IF ParentIsImageset(file_path)
    THEN \E q \in disk : SameDir(q, file_path)
    ELSE file_path \in disk

\* lines 342-356 and 367-370: one iteration of the loop over unused_dict,
\* whose keys come imageset keys first (dict insertion order)
ClearStep(name) ==
    /\ pc = "clearing"
    /\ name \in todo
    /\ name \notin imageset_keys(resources) => todo \cap imageset_keys(resources) = {}
    /\ LET file_path == unused_dict[name] IN
          /\ total_size_bytes' =
                IF file_path \in fs THEN total_size_bytes + getsize(file_path)
                ELSE total_size_bytes
          /\ IF CanDelete(fs, file_path)
             THEN /\ fs' = Removed(fs, file_path)
                  /\ todo' = todo \ {name}
                  /\ UNCHANGED << pc, err >>
             ELSE /\ pc' = "error" /\ err' = "clear"
                  /\ UNCHANGED << fs, todo >>
    /\ UNCHANGED << FlagVars, snap, filtered_files, resources, FetchVars,
                    unused_resources, persisted, unused_dict >>

\* lines 371-372: the summary is printed
ClearEnd ==
    /\ pc = "clearing" /\ todo = {}
    /\ pc' = "done"
    /\ UNCHANGED << FlagVars, snap, filtered_files, resources, fs, FetchVars,
                    unused_resources, persisted, ClearVars, err >>

----------------------------------------------------------------------------

Next ==
    \/ LoadFilteredFiles
    \/ FetchFilteredFiles
    \/ SkipResources
    \/ LoadResources
    \/ LoadUnused
    \/ ApplyResources
    \/ FetchSubmit
    \/ \E e \in EntryUniverse : RunTask(e)
    \/ \E e \in EntryUniverse : Collect(e)
    \/ Interrupt
    \/ Unwind
    \/ FetchReturn
    \/ ClearBegin
    \/ \E name \in Names : ClearStep(name)
    \/ ClearEnd

Spec == Init /\ [][Next]_vars

----------------------------------------------------------------------------
(* apply_resources step by step: path strings, folder lookup, exclusion *)

MaxTree == 3

\* A path string is its segments, each a sequence of tokens ("a@2x.png" is
\* <<"a", "@2x", ".", "png">>, the segment "." is <<".">>), and whether it
\* starts with a separator
CurDir == <<".">>
InputPaths == { [abs |-> TRUE, segs |-> << <<"proj">> >>],
                [abs |-> FALSE, segs |-> << CurDir >>] }

ExcludeFolderArgs == { << >>, <<"excl">> }

\* Files a project tree can hold, by their location below the root
TreeFiles ==
    { << <<"Res">>, <<"a", ".", "png">> >>,
      << <<"Res">>, <<"a", "@2x", ".", "png">> >>,
      << <<"Res">>, <<"excl">>, <<"b", ".", "png">> >>,
      << <<"Res">>, <<"excl">>, <<"a", "@3x", ".", "png">> >>,
      << <<"Res">>, <<"excl2">>, <<"c", ".", "json">> >>,
      << <<"Assets">>, <<"a", ".imageset">>, <<"a", ".", "png">> >> }

Trees == SetsUpTo(TreeFiles, MaxTree)

IsPrefix(d, x) == Len(d) <= Len(x) /\ SubSeq(x, 1, Len(d)) = d

\* The directories of a tree, below the root: what os.walk visits
TreeDirs(tree) ==
    UNION { { SubSeq(f, 1, k) : k \in 1..(Len(f) - 1) } : f \in tree }

\* os.path.join(path, *rel)
Join(path, rel) == [path EXCEPT !.segs = @ \o rel]

\* os.path.basename / os.path.dirname
basename(path) == path.segs[Len(path.segs)]
dirname(path) == [path EXCEPT !.segs = SubSeq(@, 1, Len(@) - 1)]

\* lines 155-160: every directory below base_path named like one of folders,
\* as os.path.join(root, folder)
find_matching_folders(base_path, folders, tree) ==
    { Join(base_path, d) :
        d \in { x \in TreeDirs(tree) :
                  \E i \in 1..Len(folders) : x[Len(x)] = <<folders[i]>> } }

\* glob(os.path.join(directory_path, "**/*.*"), recursive=True), files only
GlobFiles(base_path, directory_path, tree) ==
    { Join(base_path, f) :
        f \in { x \in tree : IsPrefix(directory_path.segs, Join(base_path, x).segs) } }

\* line 217: glob(os.path.join(input_path, "**/*.imageset/**/*.*"))
GlobImagesetFiles(base_path, tree) ==
    { Join(base_path, f) :
        f \in { x \in tree :
                  \E k \in 1..(Len(x) - 1) : x[k][Len(x[k])] = ".imageset" } }

\* posixpath.commonpath: the segments are split, empty and "." segments are
\* dropped, and the longest common prefix is joined again
RECURSIVE DropCurDir(_)
DropCurDir(segs) ==
    IF segs = << >> THEN << >>
    ELSE IF Head(segs) = CurDir \/ Head(segs) = << >>
         THEN DropCurDir(Tail(segs))
         ELSE << Head(segs) >> \o DropCurDir(Tail(segs))

RECURSIVE CommonPrefix(_, _)
CommonPrefix(a, b) ==
    IF a = << >> \/ b = << >> \/ Head(a) # Head(b) THEN << >>
    ELSE << Head(a) >> \o CommonPrefix(Tail(a), Tail(b))

commonpath(p, q) ==
    [abs |-> p.abs, segs |-> CommonPrefix(DropCurDir(p.segs), DropCurDir(q.segs))]

\* lines 193-198
is_under_exclude_path(file_path, exclude_resource_paths) ==
    \E exclude_path \in exclude_resource_paths :
        commonpath(file_path, exclude_path) = exclude_path

\* line 209: full_name.rsplit(".", 1)
LastDot(tokens) ==
    CHOOSE k \in 1..Len(tokens) :
        tokens[k] = "." /\ \A j \in (k + 1)..Len(tokens) : tokens[j] # "."
rsplit_name(tokens) == SubSeq(tokens, 1, LastDot(tokens) - 1)
rsplit_format(tokens) == SubSeq(tokens, LastDot(tokens) + 1, Len(tokens))

\* lines 180-185
remove_duplicate_suffix(name) ==
    IF name # << >> /\ name[Len(name)] \in {"@2x", "@3x"}
    THEN SubSeq(name, 1, Len(name) - 1)
    ELSE name

\* lines 163-168
extract_imageset_name(path) ==
    LET imageset_name == basename(dirname(path)) IN
    IF imageset_name[Len(imageset_name)] = ".imageset"
    THEN SubSeq(imageset_name, 1, Len(imageset_name) - 1)
    ELSE imageset_name

\* lines 206-213 / 170-173: result[key] = file for each file in turn; with
\* several files for one key whichever comes last stays
LastWriteMaps(cands) ==
    { E \in SUBSET cands :
        /\ \A c \in cands : \E e \in E : e.key = c.key
        /\ \A e1, e2 \in E : e1.key = e2.key => e1 = e2 }

OthersCandidates(files) ==
    { [key |-> << rsplit_format(basename(f)),
                  remove_duplicate_suffix(rsplit_name(basename(f))) >>,
       path |-> f] : f \in files }

ImagesetCandidates(files) ==
    { [key |-> extract_imageset_name(f), path |-> f] : f \in files }

BuildInit ==
    /\ pc = "files"
    /\ apply_filtered_files = FALSE
    /\ analyze_resources = TRUE
    /\ snap = [f \in SnapFiles |->
                 IF f = "filtered_files.json" THEN "ok" ELSE "missing"]
    /\ filtered_files = << >>
    /\ corpus = << >>
    /\ resources = {}
    /\ fs = {}
    /\ task = << >>
    /\ collected = {}
    /\ used_resources = {}
    /\ count_unuse = 0
    /\ unused_resources = {}
    /\ persisted = FALSE
    /\ unused_dict = << >>
    /\ todo = {}
    /\ total_size_bytes = 0
    /\ err = "none"
    /\ keys_read = 0
    /\ additional_resource_folders \in ResourceFolderArgs
    /\ \E ip \in InputPaths, ex \in ExcludeFolderArgs, tree \in Trees :
          build = [NoBuild EXCEPT !.stage = "start", !.input_path = ip,
                                  !.exclude_resource_folders = ex, !.tree = tree]

BuildRest == << apply_filtered_files, analyze_resources, filtered_files, corpus,
                resources, fs, FetchVars, unused_resources, persisted,
                ClearVars, keys_read, additional_resource_folders >>

\* lines 217-227: the imageset files and the files of every matched
\* additional folder are globbed; with no -arp the loop of line 220 raises
BuildCollect ==
    /\ build.stage = "start"
    /\ IF FindsNone(additional_resource_folders)
       THEN /\ build' = [build EXCEPT !.stage = "error"]
            /\ pc' = "error" /\ err' = "apply"
       ELSE /\ build' =
                 [build EXCEPT
                    !.stage = "collected",
                    !.imageset_files =
                        GlobImagesetFiles(build.input_path, build.tree),
                    !.additional_resource_files =
                        UNION { GlobFiles(build.input_path, path, build.tree) :
                                  path \in find_matching_folders(
                                      build.input_path,
                                      additional_resource_folders, build.tree) }]
            /\ UNCHANGED << pc, err >>
    /\ UNCHANGED << BuildRest, snap >>

\* lines 229-238 (apply_imageset, apply_addtional_resouces): the files not
\* under an excluded folder are kept and keyed by format and name
BuildApply ==
    /\ build.stage = "collected"
    /\ LET exclude_resource_paths ==
               IF FindsNone(build.exclude_resource_folders) THEN {}
               ELSE find_matching_folders(build.input_path,
                                          build.exclude_resource_folders,
                                          build.tree)
           resource_files ==
               { f \in build.additional_resource_files :
                   ~is_under_exclude_path(f, exclude_resource_paths) }
       IN \E im \in LastWriteMaps(ImagesetCandidates(build.imageset_files)),
             ot \in LastWriteMaps(OthersCandidates(resource_files)) :
             build' = [build EXCEPT !.stage = "applied",
                                    !.imagesets = im, !.others = ot]
    /\ UNCHANGED << BuildRest, snap, pc, err >>

\* lines 240-244: filtered_resources.json is written and the inventory
\* returned
BuildSave ==
    /\ build.stage = "applied"
    /\ build' = [build EXCEPT !.stage = "saved"]
    /\ snap' = [snap EXCEPT !["filtered_resources.json"] = "ok"]
    /\ pc' = "resources"
    /\ UNCHANGED << BuildRest, err >>

BuildNext == BuildCollect \/ BuildApply \/ BuildSave

SpecBuild == BuildInit /\ [][BuildNext]_vars

----------------------------------------------------------------------------
(* Properties *)

\* The matching rules as the specification words them: the name is split on
\* digits, '_' and '-'; with no fragment left the exact test decides
DocumentedSeparators == {"_", "-"} \cup Digits
DocumentedFragments(name) == SplitAcc(name, DocumentedSeparators, << >>, << >>)
DocumentedIsUsed(name, content) ==
    \/ IsSubstring(name, content)
    \/ /\ contains_digit(name)
       /\ DocumentedFragments(name) # << >>
       /\ \A k \in 1..Len(DocumentedFragments(name)) :
             IsSubstring(DocumentedFragments(name)[k], content)

FetchReturned == persisted

\* C1: once fetch_unused_resources has returned, every name of the inventory
\* is in exactly one of used_resources and the returned unused list, and
\* neither holds a name that is not in the inventory.
C1_PartitionComplete ==
    FetchReturned =>
        /\ \A n \in AllNames(resources) :
              (n \in used_resources) # (n \in unused_resources)
        /\ used_resources \subseteq AllNames(resources)
        /\ unused_resources \subseteq AllNames(resources)

C1_Witness ==
    /\ FetchReturned
    /\ used_resources # {} /\ unused_resources # {}
    /\ \E e \in resources : e.cat = "imagesets"
    /\ \E e \in resources : e.cat # "imagesets"

\* C2: a name is in the returned unused list only when no corpus file
\* contains it literally or, for a name with a digit, contains every
\* fragment of it.
C2_UnusedOnlyIfNoFileMatches ==
    FetchReturned =>
        \A n \in unused_resources : \A i \in DOMAIN corpus :
            ~DocumentedIsUsed(n, corpus[i].content)

\* C3: clear_unused_resources runs only after a confirmation was read from
\* the user.
C3_ClearOnlyAfterConfirmation ==
    pc \in {"clearing"} => keys_read > 0

ClearFinished == pc = "done" /\ analyze_resources

\* C4: once cleanup has finished, every path an unused name resolves to, in
\* imagesets and in every others[format] map, has been deleted, and the
\* count reported is at least the number of those paths (stated for a run
\* that built the inventory itself, so that every resolved path was on disk
\* when cleanup began).
C4_AllResolvedPathsDeleted ==
    (ClearFinished /\ FetchReturned) =>
        /\ \A e \in resources : e.name \in unused_resources => e.path \notin fs
        /\ Cardinality(DOMAIN unused_dict) >=
              Cardinality({ e \in resources : e.name \in unused_resources })

\* C5: an unreadable corpus file does not make a usage check or
\* fetch_unused_resources fail.
C5_UnreadableFileNotFatal ==
    /\ \A e \in DOMAIN task : task[e] # "raised"
    /\ err # "fetch"

\* C6: unused_assets.json is written, and cleanup is started, only when
\* every submitted task has finished and been collected; a run in which a
\* task raised or which was interrupted has persisted nothing and deleted
\* nothing.
C6_JoinBeforePersist ==
    /\ (persisted \/ pc \in {"clear", "clearing", "done"}) =>
          \A e \in DOMAIN task : task[e] # "pending" /\ e \in collected
    /\ err \in {"fetch", "interrupt"} =>
          /\ ~persisted
          /\ snap["unused_assets.json"] # "ok"
          /\ fs = FilesOnDisk(resources)

C6_Witness ==
    /\ persisted
    /\ Cardinality(DOMAIN task) >= 2
    /\ pc = "clearing"

\* C7: the set fetch_unused_resources returns is a function of the inventory
\* and of the corpus contents alone: the names no file of the corpus matches,
\* whatever the order in which the tasks ran and were collected.
C7_SchedulingIndependent ==
    FetchReturned =>
        unused_resources =
            { n \in AllNames(resources) :
                \A i \in DOMAIN corpus :
                    ~(/\ corpus[i].readable
                      /\ corpus[i].content # << >>
                      /\ FileMatches(n, corpus[i].content)) }

C7_Witness ==
    /\ FetchReturned
    /\ Cardinality(DOMAIN task) >= 2
    /\ Cardinality(used_resources) >= 2
    /\ unused_resources = {}
    /\ Len(corpus) >= 2

\* C8: a path that no longer exists when cleanup reaches it does not make
\* clear_unused_resources fail.
C8_MissingPathTolerated ==
    err # "clear"

\* C9: in a cache-reusing run where one of the three cached files is missing
\* or malformed, no usage check is run, cleanup is never reached (so no
\* file is deleted) and no partition is written.
C9_SnapshotErrorFatal ==
    (apply_filtered_files /\ \E f \in SnapFiles : snap[f] # "ok") =>
        /\ pc \notin {"clear", "clearing"}
        /\ analyze_resources => pc # "done"
        /\ task = << >> /\ unused_dict = << >> /\ ~persisted
        /\ total_size_bytes = 0

C9_Witness ==
    /\ apply_filtered_files /\ analyze_resources
    /\ snap["filtered_files.json"] = "ok"
    /\ snap["filtered_resources.json"] = "ok"
    /\ snap["unused_assets.json"] = "malformed"
    /\ resources # {}
    /\ pc = "error" /\ err = "load"

\* C10: for every name a usage check has been run for and every non-empty
\* readable file, the code's test on that file agrees with the documented
\* rule: literal substring, or, for a name with a digit, every fragment of
\* the split on digits, '_' and '-' is in the file (exact test when there is
\* no fragment).
C10_DigitTokenizedMatch ==
    \A e \in DOMAIN task : \A i \in DOMAIN corpus :
        (task[e] # "pending" /\ corpus[i].readable /\ corpus[i].content # << >>) =>
            (FileMatches(e.name, corpus[i].content)
                <=> DocumentedIsUsed(e.name, corpus[i].content))

\* Sum of the sizes of a set of files
RECURSIVE SizeOfAll(_)
SizeOfAll(paths) ==
    IF paths = {} THEN 0
    ELSE LET p == CHOOSE q \in paths : TRUE IN
         getsize(p) + SizeOfAll(paths \ {p})

\* C11: a path whose parent is a bundle directory takes the whole directory
\* with it, any other path only its own file, and the size reported is the
\* sum of the sizes of all the files removed: for a bundle, of every file the
\* directory held (stated for a run that built the inventory itself, so that
\* the disk at the start of cleanup is the inventoried one).
C11_BundleSizeIsDirectorySize ==
    (ClearFinished /\ FetchReturned) =>
        /\ \A q \in FilesOnDisk(resources) :
              (q \notin fs) <=>
                  \E k \in DOMAIN unused_dict :
                      IF ParentIsImageset(unused_dict[k])
                      THEN SameDir(q, unused_dict[k])
                      ELSE q = unused_dict[k]
        /\ total_size_bytes = SizeOfAll(FilesOnDisk(resources) \ fs)

\* C14: when fetch_unused_resources has returned, the counter of unused
\* resources that the summary prints equals the number of names in the
\* returned list.
C14_CountMatchesUnusedList ==
    FetchReturned => count_unuse = Cardinality(unused_resources)

\* C13: with resource analysis on and no additional resource folder given,
\* apply_resources completes without error, the inventory it returns has
\* imageset names only, and filtered_resources.json is saved.
C13_DefaultScopeCompletes ==
    (analyze_resources /\ ~apply_filtered_files
        /\ additional_resource_folders = << >> /\ pc \notin {"start", "files"}) =>
        /\ err # "apply"
        /\ snap["filtered_resources.json"] = "ok"
        /\ \A e \in resources : e.cat = "imagesets"

\* The directories the exclude option names, and the files that lie in or
\* below one of them, by their location in the tree
ExcludedDirs ==
    { d \in TreeDirs(build.tree) :
        \E i \in 1..Len(build.exclude_resource_folders) :
            d[Len(d)] = <<build.exclude_resource_folders[i]>> }
LocationOf(path) ==
    SubSeq(path.segs, Len(build.input_path.segs) + 1, Len(path.segs))
LiesUnderExcluded(path) ==
    \E d \in ExcludedDirs : IsPrefix(d, LocationOf(path))

\* C12: once the inventory is built, no file collected from an additional
\* resource folder that lies in or below an excluded directory is a path of
\* the others maps, and every collected file that lies under none has its
\* normalized name as a key of the map of its format.
C12_ExclusionWins ==
    build.stage \in {"applied", "saved"} =>
        \A f \in build.additional_resource_files :
            IF LiesUnderExcluded(f)
            THEN \A e \in build.others : e.path # f
            ELSE \E e \in build.others :
                    e.key = << rsplit_format(basename(f)),
                               remove_duplicate_suffix(rsplit_name(basename(f))) >>

====
